---- MODULE Spec2Model ----
(***************************************************************************)
(* Model of nanobot's agent loop (nanobot/agent/loop.py) and of the        *)
(* long-term memory store (nanobot/agent/memory.py).                       *)
(*                                                                         *)
(* Text is modelled as a sequence of atoms.  An atom is a maximal piece    *)
(* of text that the code never looks inside: a word, a whitespace run, or  *)
(* the colon on which a composite address is split.  Cyrillic literals of  *)
(* the source are written in Latin transliteration.                        *)
(***************************************************************************)
EXTENDS Integers, Sequences, FiniteSets, TLC

(* ------------------------------ bounds -------------------------------- *)
\* largest configured max_iterations explored
MaxIter == 2
\* inbound messages of one run: those the channels publish and those the
\* subagents announce
MaxInbound == 2
\* length, in atoms, of the chat_id of a probed system message
MaxLen == 4

(* ------------------------------- text --------------------------------- *)
Colon == ":"
Whitespace == {" ", "\n"}

IsBlank(s) == \A i \in 1..Len(s) : s[i] \in Whitespace

RECURSIVE LStrip(_)
LStrip(s) ==
    IF s # <<>> /\ Head(s) \in Whitespace THEN LStrip(Tail(s)) ELSE s

RECURSIVE RStrip(_)
RStrip(s) ==
    IF s # <<>> /\ s[Len(s)] \in Whitespace
    THEN RStrip(SubSeq(s, 1, Len(s) - 1))
    ELSE s

\* str.strip()
Strip(s) == RStrip(LStrip(s))

LowerAtom(a) ==
    CASE a = "Save" -> "save"
      [] a = "SAVE" -> "save"
      [] a = "To" -> "to"
      [] a = "Memory" -> "memory"
      [] a = "Cancel" -> "cancel"
      [] a = "Otmena" -> "otmena"
      [] a = "Sokhranit" -> "sokhranit"
      [] a = "Note" -> "note"
      [] OTHER -> a

\* str.lower()
Lower(s) == [i \in 1..Len(s) |-> LowerAtom(s[i])]

\* optional values: None is the empty tuple, a present value v is <<v>>
None == <<>>
Some(v) == <<v>>
\* Python's (x or "")
OrEmpty(o) == IF o = None THEN <<>> ELSE o[1]

(* ----------------------- trigger vocabulary --------------------------- *)
\* loop.py:163  normalized = (msg.content or "").strip().lower()
Normalized(content) == Lower(Strip(content))

\* loop.py:164  {"sokhranit v pamyati", "save to memory"}
IsSaveMemory(content) ==
    Normalized(content) \in
        { <<"sokhranit", " ", "v", " ", "pamyati">>,
          <<"save", " ", "to", " ", "memory">> }

\* loop.py:165  {"otmena", "cancel"}
IsCancelMemory(content) ==
    Normalized(content) \in { <<"otmena">>, <<"cancel">> }

\* loop.py:166  {"sokhranit", "save"}
IsConfirmSave(content) ==
    Normalized(content) \in { <<"sokhranit">>, <<"save">> }

(* ----------------------------- addressing ----------------------------- *)
System == <<"system">>
Cli == <<"cli">>

HasColon(s) == \E i \in 1..Len(s) : s[i] = Colon

\* index of the first colon of s (s contains one)
FirstColon(s) ==
    CHOOSE i \in 1..Len(s) : s[i] = Colon /\ \A j \in 1..(i - 1) : s[j] # Colon

\* index of the last colon of s (s contains one)
LastColon(s) ==
    CHOOSE i \in 1..Len(s) : s[i] = Colon /\ \A j \in (i + 1)..Len(s) : s[j] # Colon

\* variant: the chat_id is split at its last colon
ResolveOrigin_LastColon(chat_id) ==
    IF HasColon(chat_id)
    THEN [channel |-> SubSeq(chat_id, 1, LastColon(chat_id) - 1),
          chat_id |-> SubSeq(chat_id, LastColon(chat_id) + 1, Len(chat_id))]
    ELSE [channel |-> Cli, chat_id |-> chat_id]

\* loop.py:388-395: origin of a system message, from its chat_id
ResolveOrigin(chat_id) ==
    IF HasColon(chat_id)
    THEN [channel |-> SubSeq(chat_id, 1, FirstColon(chat_id) - 1),
          chat_id |-> SubSeq(chat_id, FirstColon(chat_id) + 1, Len(chat_id))]
    ELSE [channel |-> Cli, chat_id |-> chat_id]

\* f"{channel}:{chat_id}" (loop.py:398; InboundMessage.session_key)
SessionKey(channel, chat_id) == channel \o <<Colon>> \o chat_id

(* ------------------------- long-term memory --------------------------- *)
\* the template ensure_long_term_exists writes (memory.py:62-89)
Template == <<"# Long-term Memory ...">>
Separator == "\n\n---\n\n"

NoFile == [exists |-> FALSE, text |-> <<>>]

\* memory.py:57-89
EnsureLongTermExists(file) ==
    IF file.exists THEN file ELSE [exists |-> TRUE, text |-> Template]

\* variant: the entry replaces what the file held
AppendLongTerm_Overwrites(file, content) ==
    IF Strip(content) = <<>>
    THEN file
    ELSE [exists |-> TRUE, text |-> <<Separator>> \o Strip(content) \o <<"\n">>]

\* memory.py:91-103
AppendLongTerm(file, content) ==
    IF Strip(content) = <<>>
    THEN file
    ELSE [exists |-> TRUE,
          text |-> EnsureLongTermExists(file).text
                     \o <<Separator>> \o Strip(content) \o <<"\n">>]

(* ------------------------------ sessions ------------------------------ *)
NewSession == [messages |-> <<>>, metadata |-> <<>>]

AwaitingKey == "awaiting_memory_confirm"
DraftKey == "memory_draft"

\* dict.pop(key, None)
Pop(md, k) == [x \in (DOMAIN md) \ {k} |-> md[x]]
\* dict[key] = value
Put(md, k, v) == [x \in (DOMAIN md) \cup {k} |-> IF x = k THEN v ELSE md[x]]

\* loop.py:168  bool(session.metadata.get("awaiting_memory_confirm"))
Awaiting(session) ==
    AwaitingKey \in DOMAIN session.metadata /\ session.metadata[AwaitingKey]

\* loop.py:180  str(session.metadata.get("memory_draft") or "").strip()
DraftOf(session) ==
    IF DraftKey \in DOMAIN session.metadata
    THEN Strip(session.metadata[DraftKey])
    ELSE <<>>

\* session.add_message(role, content)
AddMessage(session, role, content) ==
    [session EXCEPT !.messages = Append(@, [role |-> role, content |-> content])]

\* SessionManager.get_or_create(key), as a view of the store
GetOrCreate(store, key) == IF key \in DOMAIN store THEN store[key] ELSE NewSession

\* the store after get_or_create(key) and save(session)
Save(store, key, session) ==
    [k \in (DOMAIN store) \cup {key} |-> IF k = key THEN session ELSE store[k]]

\* the store after get_or_create(key) alone
Touch(store, key) == Save(store, key, GetOrCreate(store, key))

\* variant: a history entry without content still gives a transcript line
TranscriptLine_KeepBlank(m) ==
    LET who == CASE m.role = "user" -> "Polzovatel: "
                 [] m.role = "assistant" -> "Assistent: "
                 [] OTHER -> m.role
    IN  <<who>> \o Strip(m.content)

\* loop.py:224-237: one transcript line per history entry with content
TranscriptLine(m) ==
    LET content == Strip(m.content)
        who == CASE m.role = "user" -> "Polzovatel: "
                 [] m.role = "assistant" -> "Assistent: "
                 [] OTHER -> m.role
    IN  IF content = <<>> THEN <<>> ELSE <<who>> \o content

RECURSIVE Transcript(_)
Transcript(messages) ==
    IF messages = <<>> THEN <<>>
    ELSE LET line == TranscriptLine(Head(messages))
             rest == Transcript(Tail(messages))
         IN  IF line = <<>> THEN rest
             ELSE IF rest = <<>> THEN line
             ELSE line \o <<"\n">> \o rest

(* ------------------------------ replies ------------------------------- *)
\* loop.py:176
CancelAck == <<"Ok, otmenil sokhranenie. Chernovik sbroshen.">>
\* loop.py:187-190
NoDraftReply == <<"Chernovik ne naiden.">>
\* loop.py:200
SavedAck == <<"Sokhraneno v dolgosrochnuyu pamyat (memory/MEMORY.md).">>
\* loop.py:214-219
EditReply(edited) ==
    <<"Obnovil chernovik.", "\n\n">> \o edited \o <<"\n\n", "Teper napishi ...">>
\* loop.py:242
NothingToSave == <<"Poka nechego sokhranyat: istoriya dialoga pusta.">>
\* loop.py:276
DraftPlaceholder == <<"(Ne udalos sgenerirovat chernovik rezyume.)">>
\* loop.py:284-290
DraftReply(draft) ==
    <<"Chernovik rezyume dlya pamyati:", "\n\n">> \o draft
        \o <<"\n\n", "Otprav pravki tekstom ...">>
\* loop.py:361-363
NoResponseText == <<"I've completed processing but have no response to give.">>
\* loop.py:462
BackgroundDone == <<"Background task completed.">>
\* loop.py:126
ErrorReply == <<"Sorry, I encountered an error: ">>
\* loop.py:465
SystemPrefix(sender_id) == <<"[System: ">> \o sender_id \o <<"] ">>

(* ------------------------------- inputs ------------------------------- *)
Channels == { <<"telegram">> }
ChatIds == { <<"42">>, <<"g", Colon, "7">> }
Contents ==
    { <<" ", "Save", " ", "to", " ", "Memory", "\n">>,
      <<"save">>,
      <<"Otmena", " ">>,
      <<" ", "Note", " ">>,
      <<" ">> }

\* every text on the first chat, plain text alone on the second
UserMessages ==
    { m \in [channel : Channels, sender_id : {<<"u">>}, chat_id : ChatIds,
             content : Contents] :
        m.chat_id = <<"42">> \/ m.content = <<" ", "Note", " ">> }

\* what the model backend may answer with as content (None, blank, text)
ModelContents == { None, Some(<<" ">>), Some(<<" ", "Summary", "\n">>) }

ToolNames == { "read_file", "spawn" }

\* the tools a response may call, in order
ToolCallNames == { <<"read_file">>, <<"read_file", "spawn">> }

\* the tool calls of one response, ids assigned by the model
ToolCallLists(iteration) ==
    { [i \in 1..Len(names) |-> [id |-> <<iteration, i>>, name |-> names[i]]] :
        names \in ToolCallNames }

(* ------------------------------- state -------------------------------- *)
VARIABLES
    max_iterations,   \* self.max_iterations
    running,          \* self._running
    pc,               \* where run() stands
    inbound,          \* bus: inbound queue
    outbound,         \* bus: what run() published since it last consumed
    sessions,         \* SessionManager: session key -> session
    memory_file,      \* memory/MEMORY.md
    spawn_context,    \* SpawnTool context set by set_context
    subagents,        \* running subagents, each with its origin
    task,             \* per task: the frame of its _process_message call
    published,        \* user messages published so far
    spawned,          \* subagents spawned so far
    dequeued          \* inbound messages consumed by run() so far

vars ==
    << max_iterations, running, pc, inbound, outbound, sessions, memory_file,
       spawn_context, subagents, task, published, spawned, dequeued >>

Tasks == { "run", "direct" }

NoMsg == [channel |-> <<>>, sender_id |-> <<>>, chat_id |-> <<>>, content |-> <<>>]
NoOrigin == [channel |-> <<>>, chat_id |-> <<>>]

IdleTask ==
    [pc |-> "idle", msg |-> NoMsg, key |-> <<>>, origin |-> NoOrigin,
     messages |-> <<>>, iteration |-> 0, final |-> None, pending |-> <<>>,
     chat_log |-> <<>>, draft_resp |-> None, result |-> None,
     pre |-> [sessions |-> <<>>, memory_file |-> NoFile]]

\* the frame of a call process_direct(content, session_key)
DirectCaller == "process_direct"
NoCall == [pc |-> "idle", content |-> <<>>, session_key |-> <<>>, returned |-> None]

\* the frame of a call append_long_term(content) on the memory store
StoreCaller == "append_long_term"
NoAppend == [pc |-> "idle", content |-> <<>>, before |-> NoFile]

\* no turn in flight, process_direct and append_long_term not called
NoTasks ==
    [t \in Tasks |-> IdleTask]
        @@ (DirectCaller :> NoCall) @@ (StoreCaller :> NoAppend)

\* a session persisted by an earlier run, as the tests seed it
SeededSession ==
    [messages |-> << [role |-> "user", content |-> <<"Privet">>],
                     [role |-> "assistant", content |-> <<"Zdravstvuite">>] >>,
     metadata |-> <<>>]

\* the same session, persisted while a draft awaited confirmation
DraftingSession ==
    [SeededSession EXCEPT !.metadata =
         Put(Put(<<>>, AwaitingKey, TRUE), DraftKey, <<"Draft">>)]

SeededKey == SessionKey(<<"telegram">>, <<"42">>)

Init ==
    /\ max_iterations \in 0..MaxIter
    /\ running = FALSE
    /\ pc = "start"
    /\ inbound = <<>>
    /\ outbound = <<>>
    /\ sessions \in { <<>>,
                      [k \in {SeededKey} |-> SeededSession],
                      [k \in {SeededKey} |-> DraftingSession] }
    /\ memory_file = NoFile
    /\ spawn_context = NoOrigin
    /\ subagents = {}
    /\ task = NoTasks
    /\ published = 0
    /\ spawned = 0
    /\ dequeued = 0

(* ------------------------ _process_message ---------------------------- *)
\* The frame of a call that starts on message m.
Frame(m, key, origin) ==
    [IdleTask EXCEPT !.msg = m, !.key = key, !.origin = origin,
                     !.pre = [sessions |-> sessions, memory_file |-> memory_file]]

\* return OutboundMessage(channel, chat_id, content)
Returned(frame, channel, chat_id, content) ==
    [frame EXCEPT !.pc = "returned",
                  !.result = Some([channel |-> channel, chat_id |-> chat_id,
                                   content |-> content])]

Raised(frame) == [frame EXCEPT !.pc = "raised"]

\* ContextBuilder.build_messages(history, current_message)
BuildMessages(history, current) ==
    << [role |-> "system", content |-> <<"prompt">>] >> \o history
        \o << [role |-> "user", content |-> current] >>

UserKey(m) == SessionKey(m.channel, m.chat_id)
UserOrigin(m) == [channel |-> m.channel, chat_id |-> m.chat_id]

\* variant: cancelling drops the awaiting flag and keeps the draft
CancelMemory_KeepsDraft(t, m) ==
    LET key == UserKey(m)
        session == GetOrCreate(sessions, key)
    IN  /\ m.channel # System
        /\ Awaiting(session)
        /\ IsCancelMemory(m.content)
        /\ sessions' = Save(sessions, key,
               [session EXCEPT !.metadata = Pop(@, AwaitingKey)])
        /\ task' = [task EXCEPT ![t] =
               Returned(Frame(m, key, UserOrigin(m)), m.channel, m.chat_id, CancelAck)]
        /\ UNCHANGED << memory_file, spawn_context, subagents, spawned >>

\* loop.py:168-177  awaiting and is_cancel_memory
CancelMemory(t, m) ==
    LET key == UserKey(m)
        session == GetOrCreate(sessions, key)
    IN  /\ m.channel # System
        /\ Awaiting(session)
        /\ IsCancelMemory(m.content)
        /\ sessions' = Save(sessions, key,
               [session EXCEPT !.metadata = Pop(Pop(@, AwaitingKey), DraftKey)])
        /\ task' = [task EXCEPT ![t] =
               Returned(Frame(m, key, UserOrigin(m)), m.channel, m.chat_id, CancelAck)]
        /\ UNCHANGED << memory_file, spawn_context, subagents, spawned >>

\* variant: confirming appends the draft and leaves the session awaiting
ConfirmSave_StaysAwaiting(t, m) ==
    LET key == UserKey(m)
        session == GetOrCreate(sessions, key)
        draft == DraftOf(session)
    IN  /\ m.channel # System
        /\ Awaiting(session)
        /\ ~IsCancelMemory(m.content)
        /\ IsConfirmSave(m.content) \/ IsSaveMemory(m.content)
        /\ memory_file' = AppendLongTerm(memory_file, draft)
        /\ sessions' = Save(sessions, key, session)
        /\ task' = [task EXCEPT ![t] =
               Returned(Frame(m, key, UserOrigin(m)),
                        m.channel, m.chat_id, SavedAck)]
        /\ UNCHANGED << spawn_context, subagents, spawned >>

\* variant: confirming appends the draft and keeps it in the metadata
ConfirmSave_KeepsDraft(t, m) ==
    LET key == UserKey(m)
        session == GetOrCreate(sessions, key)
        draft == DraftOf(session)
    IN  /\ m.channel # System
        /\ Awaiting(session)
        /\ ~IsCancelMemory(m.content)
        /\ IsConfirmSave(m.content) \/ IsSaveMemory(m.content)
        /\ memory_file' = AppendLongTerm(memory_file, draft)
        /\ sessions' = Save(sessions, key,
               [session EXCEPT !.metadata = Pop(@, AwaitingKey)])
        /\ task' = [task EXCEPT ![t] =
               Returned(Frame(m, key, UserOrigin(m)),
                        m.channel, m.chat_id, SavedAck)]
        /\ UNCHANGED << spawn_context, subagents, spawned >>

\* loop.py:179-201  confirm: append the draft (if there is one), clear the state
ConfirmSave(t, m) ==
    LET key == UserKey(m)
        session == GetOrCreate(sessions, key)
        draft == DraftOf(session)
    IN  /\ m.channel # System
        /\ Awaiting(session)
        /\ ~IsCancelMemory(m.content)
        /\ IsConfirmSave(m.content) \/ IsSaveMemory(m.content)
        /\ IF draft = <<>>
           THEN /\ sessions' = Save(sessions, key,
                       [session EXCEPT !.metadata = Pop(@, AwaitingKey)])
                /\ task' = [task EXCEPT ![t] =
                       Returned(Frame(m, key, UserOrigin(m)),
                                m.channel, m.chat_id, NoDraftReply)]
                /\ UNCHANGED memory_file
           ELSE /\ memory_file' = AppendLongTerm(memory_file, draft)
                /\ sessions' = Save(sessions, key,
                       [session EXCEPT !.metadata =
                            Pop(Pop(@, AwaitingKey), DraftKey)])
                /\ task' = [task EXCEPT ![t] =
                       Returned(Frame(m, key, UserOrigin(m)),
                                m.channel, m.chat_id, SavedAck)]
        /\ UNCHANGED << spawn_context, subagents, spawned >>

\* variant: the confirmation state is cleared before the append is attempted
ConfirmSaveFails_ClearsDraft(t, m) ==
    LET key == UserKey(m)
        session == GetOrCreate(sessions, key)
    IN  /\ m.channel # System
        /\ Awaiting(session)
        /\ ~IsCancelMemory(m.content)
        /\ IsConfirmSave(m.content) \/ IsSaveMemory(m.content)
        /\ DraftOf(session) # <<>>
        /\ sessions' = Save(sessions, key,
               [session EXCEPT !.metadata = Pop(Pop(@, AwaitingKey), DraftKey)])
        /\ task' = [task EXCEPT ![t] = Raised(Frame(m, key, UserOrigin(m)))]
        /\ UNCHANGED << memory_file, spawn_context, subagents, spawned >>

\* loop.py:193  append_long_term raises (the file cannot be written)
ConfirmSaveFails(t, m) ==
    LET key == UserKey(m)
        session == GetOrCreate(sessions, key)
    IN  /\ m.channel # System
        /\ Awaiting(session)
        /\ ~IsCancelMemory(m.content)
        /\ IsConfirmSave(m.content) \/ IsSaveMemory(m.content)
        /\ DraftOf(session) # <<>>
        /\ sessions' = Touch(sessions, key)
        /\ task' = [task EXCEPT ![t] = Raised(Frame(m, key, UserOrigin(m)))]
        /\ UNCHANGED << memory_file, spawn_context, subagents, spawned >>

\* variant: the edited draft keeps the whitespace around the text
EditDraft_Unstripped(t, m) ==
    LET key == UserKey(m)
        session == GetOrCreate(sessions, key)
    IN  /\ m.channel # System
        /\ Awaiting(session)
        /\ ~(IsConfirmSave(m.content) \/ IsSaveMemory(m.content)
                \/ IsCancelMemory(m.content))
        /\ Strip(m.content) # <<>>
        /\ sessions' = Save(sessions, key,
               [session EXCEPT !.metadata = Put(@, DraftKey, m.content)])
        /\ task' = [task EXCEPT ![t] =
               Returned(Frame(m, key, UserOrigin(m)), m.channel, m.chat_id,
                        EditReply(m.content))]
        /\ UNCHANGED << memory_file, spawn_context, subagents, spawned >>

\* loop.py:203-220  any other text while awaiting is an edited draft
EditDraft(t, m) ==
    LET key == UserKey(m)
        session == GetOrCreate(sessions, key)
        edited == Strip(m.content)
    IN  /\ m.channel # System
        /\ Awaiting(session)
        /\ ~(IsConfirmSave(m.content) \/ IsSaveMemory(m.content)
                \/ IsCancelMemory(m.content))
        /\ edited # <<>>
        /\ sessions' = Save(sessions, key,
               [session EXCEPT !.metadata = Put(@, DraftKey, edited)])
        /\ task' = [task EXCEPT ![t] =
               Returned(Frame(m, key, UserOrigin(m)), m.channel, m.chat_id,
                        EditReply(edited))]
        /\ UNCHANGED << memory_file, spawn_context, subagents, spawned >>

\* loop.py:222-243  save request, nothing to save
SaveMemoryEmpty(t, m) ==
    LET key == UserKey(m)
        session == GetOrCreate(sessions, key)
    IN  /\ m.channel # System
        /\ ~Awaiting(session)
        /\ IsSaveMemory(m.content)
        /\ Strip(Transcript(session.messages)) = <<>>
        /\ sessions' = Touch(sessions, key)
        /\ task' = [task EXCEPT ![t] =
               Returned(Frame(m, key, UserOrigin(m)), m.channel, m.chat_id,
                        NothingToSave)]
        /\ UNCHANGED << memory_file, spawn_context, subagents, spawned >>

\* loop.py:222-272  save request: ask the model for a draft (tools=None)
SaveMemoryAsk(t, m) ==
    LET key == UserKey(m)
        session == GetOrCreate(sessions, key)
    IN  /\ m.channel # System
        /\ ~Awaiting(session)
        /\ IsSaveMemory(m.content)
        /\ Strip(Transcript(session.messages)) # <<>>
        /\ sessions' = Touch(sessions, key)
        /\ task' = [task EXCEPT ![t] =
               [Frame(m, key, UserOrigin(m)) EXCEPT
                    !.pc = "draft",
                    !.chat_log = << [tools |-> "none"] >>]]
        /\ UNCHANGED << memory_file, spawn_context, subagents, spawned >>

\* variant: the draft is stored without the awaiting flag
DraftArrives_NoFlag(t) ==
    /\ task[t].pc = "draft"
    /\ \E content \in ModelContents :
         LET m == task[t].msg
             stripped == Strip(OrEmpty(content))
             draft == IF stripped = <<>> THEN DraftPlaceholder ELSE stripped
             session == sessions[task[t].key]
         IN  /\ sessions' = [sessions EXCEPT ![task[t].key] =
                    [session EXCEPT !.metadata = Put(@, DraftKey, draft)]]
             /\ task' = [task EXCEPT ![t] =
                    Returned([@ EXCEPT !.draft_resp = Some(content)],
                             m.channel, m.chat_id, DraftReply(draft))]
    /\ UNCHANGED << memory_file, spawn_context, subagents, spawned >>

\* variant: an empty draft of the model is stored as it is
DraftArrives_NoPlaceholder(t) ==
    /\ task[t].pc = "draft"
    /\ \E content \in ModelContents :
         LET m == task[t].msg
             draft == Strip(OrEmpty(content))
             session == sessions[task[t].key]
         IN  /\ sessions' = [sessions EXCEPT ![task[t].key] =
                    [session EXCEPT !.metadata =
                         Put(Put(@, AwaitingKey, TRUE), DraftKey, draft)]]
             /\ task' = [task EXCEPT ![t] =
                    Returned([@ EXCEPT !.draft_resp = Some(content)],
                             m.channel, m.chat_id, DraftReply(draft))]
    /\ UNCHANGED << memory_file, spawn_context, subagents, spawned >>

\* loop.py:274-291  the draft arrived
DraftArrives(t) ==
    /\ task[t].pc = "draft"
    /\ \E content \in ModelContents :
         LET m == task[t].msg
             stripped == Strip(OrEmpty(content))
             draft == IF stripped = <<>> THEN DraftPlaceholder ELSE stripped
             session == sessions[task[t].key]
         IN  /\ sessions' = [sessions EXCEPT ![task[t].key] =
                    [session EXCEPT !.metadata =
                         Put(Put(@, AwaitingKey, TRUE), DraftKey, draft)]]
             /\ task' = [task EXCEPT ![t] =
                    Returned([@ EXCEPT !.draft_resp = Some(content)],
                             m.channel, m.chat_id, DraftReply(draft))]
    /\ UNCHANGED << memory_file, spawn_context, subagents, spawned >>

\* loop.py:260  provider.chat raises
DraftFails(t) ==
    /\ task[t].pc = "draft"
    /\ task' = [task EXCEPT ![t] = Raised(@)]
    /\ UNCHANGED << sessions, memory_file, spawn_context, subagents, spawned >>

\* loop.py:293-311  an ordinary message enters the tool loop
\* (also text that is blank while a draft awaits: loop.py:208 falls through)
EnterLoop(t, m) ==
    LET key == UserKey(m)
        session == GetOrCreate(sessions, key)
    IN  /\ m.channel # System
        /\ \/ ~Awaiting(session) /\ ~IsSaveMemory(m.content)
           \/ /\ Awaiting(session)
              /\ ~(IsConfirmSave(m.content) \/ IsSaveMemory(m.content)
                      \/ IsCancelMemory(m.content))
              /\ Strip(m.content) = <<>>
        /\ sessions' = Touch(sessions, key)
        /\ spawn_context' = UserOrigin(m)
        /\ task' = [task EXCEPT ![t] =
               [Frame(m, key, UserOrigin(m)) EXCEPT
                    !.pc = "loop",
                    !.messages = BuildMessages(session.messages, m.content)]]
        /\ UNCHANGED << memory_file, subagents, spawned >>

\* variant: the session is keyed by the system message as it came
ProcessSystemMessage_LiteralKey(t, m) ==
    LET origin == ResolveOrigin(m.chat_id)
        key == SessionKey(m.channel, m.chat_id)
        session == GetOrCreate(sessions, key)
    IN  /\ m.channel = System
        /\ sessions' = Touch(sessions, key)
        /\ spawn_context' = origin
        /\ task' = [task EXCEPT ![t] =
               [Frame(m, key, origin) EXCEPT
                    !.pc = "loop",
                    !.messages = BuildMessages(session.messages, m.content)]]
        /\ UNCHANGED << memory_file, subagents, spawned >>

\* loop.py:376-418  a system message enters the tool loop of its origin
ProcessSystemMessage(t, m) ==
    LET origin == ResolveOrigin(m.chat_id)
        key == SessionKey(origin.channel, origin.chat_id)
        session == GetOrCreate(sessions, key)
    IN  /\ m.channel = System
        /\ sessions' = Touch(sessions, key)
        /\ spawn_context' = origin
        /\ task' = [task EXCEPT ![t] =
               [Frame(m, key, origin) EXCEPT
                    !.pc = "loop",
                    !.messages = BuildMessages(session.messages, m.content)]]
        /\ UNCHANGED << memory_file, subagents, spawned >>

(* --------------------------- the tool loop ---------------------------- *)
IsSystemTurn(frame) == frame.msg.channel = System

\* variant: one fallback text for every kind of turn
FinalContent_OneFallback(frame, final) ==
    IF final # None THEN final[1] ELSE NoResponseText

\* loop.py:360-363, 461-462
FinalContent(frame, final) ==
    IF final # None THEN final[1]
    ELSE IF IsSystemTurn(frame) THEN BackgroundDone ELSE NoResponseText

\* loop.py:366, 465  what is recorded as the user's entry
UserEntry(frame) ==
    IF IsSystemTurn(frame)
    THEN SystemPrefix(frame.msg.sender_id) \o frame.msg.content
    ELSE frame.msg.content

\* variant: the turn's message list is persisted with its tool exchanges
Committed_WithExchanges(session, frame, final) ==
    [session EXCEPT !.messages =
         Tail(frame.messages) \o
             << [role |-> "assistant", content |-> FinalContent(frame, final)] >>]

\* variant: the user's entry is not recorded
Committed_AssistantOnly(session, frame, final) ==
    AddMessage(session, "assistant", FinalContent(frame, final))

\* loop.py:365-368, 464-467  the session after the turn is committed
Committed(session, frame, final) ==
    AddMessage(AddMessage(session, "user", UserEntry(frame)),
               "assistant", FinalContent(frame, final))

\* loop.py:360-374, 461-473  commit the turn and return the reply
Commit(t, final) ==
    /\ sessions' = [sessions EXCEPT ![task[t].key] =
           Committed(@, task[t], final)]
    /\ task' = [task EXCEPT ![t] =
           Returned([@ EXCEPT !.final = final],
                    @.origin.channel, @.origin.chat_id,
                    FinalContent(@, final))]

\* variant: the loop condition is iteration <= max_iterations
CallModel_OffByOne(t) ==
    /\ task[t].pc = "loop"
    /\ task[t].iteration <= max_iterations
    /\ task' = [task EXCEPT ![t] =
           [@ EXCEPT !.pc = "chat",
                     !.iteration = @ + 1,
                     !.chat_log = Append(@, [tools |-> "definitions"])]]
    /\ UNCHANGED << sessions, memory_file, spawn_context, subagents, spawned >>

\* loop.py:313-321, 420-427  while iteration < max_iterations: call the model
CallModel(t) ==
    /\ task[t].pc = "loop"
    /\ task[t].iteration < max_iterations
    /\ task' = [task EXCEPT ![t] =
           [@ EXCEPT !.pc = "chat",
                     !.iteration = @ + 1,
                     !.chat_log = Append(@, [tools |-> "definitions"])]]
    /\ UNCHANGED << sessions, memory_file, spawn_context, subagents, spawned >>

\* loop.py:313, 360-374  the loop ran out of iterations
Exhausted(t) ==
    /\ task[t].pc = "loop"
    /\ ~(task[t].iteration < max_iterations)
    /\ Commit(t, task[t].final)
    /\ UNCHANGED << memory_file, spawn_context, subagents, spawned >>

\* loop.py:355-374, 457-473  a response without tool calls ends the loop
ChatFinal(t) ==
    /\ task[t].pc = "chat"
    /\ \E content \in ModelContents : Commit(t, content)
    /\ UNCHANGED << memory_file, spawn_context, subagents, spawned >>

\* loop.py:324-340, 429-443  a response with tool calls
ChatToolCalls(t) ==
    /\ task[t].pc = "chat"
    /\ \E calls \in ToolCallLists(task[t].iteration), content \in { None } :
         /\ published + spawned
                + Cardinality({ i \in 1..Len(calls) : calls[i].name = "spawn" })
                <= MaxInbound
         /\ task' = [task EXCEPT ![t] =
                [@ EXCEPT !.pc = "tool",
                          !.pending = calls,
                          !.messages = Append(@,
                              [role |-> "assistant", content |-> OrEmpty(content),
                               tool_calls |-> calls])]]
    /\ UNCHANGED << sessions, memory_file, spawn_context, subagents, spawned >>

\* loop.py:317, 423  provider.chat raises
ChatFails(t) ==
    /\ task[t].pc = "chat"
    /\ task' = [task EXCEPT ![t] = Raised(@)]
    /\ UNCHANGED << sessions, memory_file, spawn_context, subagents, spawned >>

\* variant: the last of the pending tool calls runs first
ToolDone_LastFirst(t) ==
    /\ task[t].pc = "tool"
    /\ LET n == Len(task[t].pending)
           call == task[t].pending[n]
           rest == SubSeq(task[t].pending, 1, n - 1)
       IN  /\ IF call.name = "spawn"
              THEN /\ subagents' = subagents \cup
                         { [id |-> spawned + 1, origin |-> spawn_context] }
                   /\ spawned' = spawned + 1
              ELSE UNCHANGED << subagents, spawned >>
           /\ task' = [task EXCEPT ![t] =
                  [@ EXCEPT !.pending = rest,
                            !.pc = IF rest = <<>> THEN "loop" ELSE "tool",
                            !.messages = Append(@,
                                [role |-> "tool", tool_call_id |-> call.id,
                                 name |-> call.name, content |-> <<"result">>])]]
    /\ UNCHANGED << sessions, memory_file, spawn_context >>

\* loop.py:343-354, 445-456  the next tool call runs and its result is added
ToolDone(t) ==
    /\ task[t].pc = "tool"
    /\ LET call == Head(task[t].pending)
       IN  /\ IF call.name = "spawn"
              THEN /\ subagents' = subagents \cup
                         { [id |-> spawned + 1, origin |-> spawn_context] }
                   /\ spawned' = spawned + 1
              ELSE UNCHANGED << subagents, spawned >>
           /\ task' = [task EXCEPT ![t] =
                  [@ EXCEPT !.pending = Tail(@),
                            !.pc = IF Tail(task[t].pending) = <<>>
                                   THEN "loop" ELSE "tool",
                            !.messages = Append(@,
                                [role |-> "tool", tool_call_id |-> call.id,
                                 name |-> call.name, content |-> <<"result">>])]]
    /\ UNCHANGED << sessions, memory_file, spawn_context >>

(* ------------------------------- run() -------------------------------- *)
RunFrame == << pc, inbound, dequeued >>
TurnState == << sessions, memory_file, spawn_context, subagents, spawned, task >>
Environment == << max_iterations, published >>

\* loop.py:102-105
RunStart ==
    /\ pc = "start"
    /\ running' = TRUE
    /\ pc' = "check"
    /\ UNCHANGED << inbound, dequeued, outbound, TurnState, Environment >>

\* variant: the loop does not look at the flag
LoopCheck_IgnoresStop ==
    /\ pc = "check"
    /\ pc' = "wait"
    /\ UNCHANGED << running, inbound, dequeued, outbound, TurnState, Environment >>

\* loop.py:107  while self._running
LoopCheck ==
    /\ pc = "check"
    /\ pc' = IF running THEN "wait" ELSE "exited"
    /\ UNCHANGED << running, inbound, dequeued, outbound, TurnState, Environment >>

\* loop.py:110-113, 128-129  the bounded wait times out on an empty queue
WaitTimeout ==
    /\ pc = "wait"
    /\ inbound = <<>>
    /\ pc' = "check"
    /\ UNCHANGED << running, inbound, dequeued, outbound, TurnState, Environment >>

\* loop.py:110-117  run() consumes the head of the queue and calls
\* _process_message on it, which runs until it first awaits or returns
Consuming ==
    /\ pc = "wait"
    /\ inbound # <<>>
    /\ inbound' = Tail(inbound)
    /\ dequeued' = dequeued + 1
    /\ pc' = "turn"
    /\ outbound' = <<>>
    /\ UNCHANGED << running, Environment >>

\* loop.py:117  run() awaits the turn in flight, which takes a step
InTurn ==
    /\ pc = "turn"
    /\ UNCHANGED << running, RunFrame, outbound, Environment >>

\* what run() publishes, with the turn it was published for
Published(channel, chat_id, content, kind) ==
    [channel |-> channel, chat_id |-> chat_id, content |-> content,
     kind |-> kind, turn |-> dequeued]

\* variant: the response is published and the turn then counts as raised
PublishResponse_ThenRaises ==
    /\ pc = "turn"
    /\ task["run"].pc = "returned"
    /\ LET response == task["run"].result[1]
       IN  outbound' = Append(outbound,
               Published(response.channel, response.chat_id, response.content,
                         "reply"))
    /\ task' = [task EXCEPT !["run"] = Raised(@)]
    /\ UNCHANGED << running, pc, inbound, dequeued, sessions, memory_file,
                    spawn_context, subagents, spawned, Environment >>

\* loop.py:118-119  publish the response
PublishResponse ==
    /\ pc = "turn"
    /\ task["run"].pc = "returned"
    /\ LET response == task["run"].result[1]
       IN  outbound' = Append(outbound,
               Published(response.channel, response.chat_id, response.content,
                         "reply"))
    /\ task' = [task EXCEPT !["run"] = IdleTask]
    /\ pc' = "check"
    /\ UNCHANGED << running, inbound, dequeued, sessions, memory_file,
                    spawn_context, subagents, spawned, Environment >>

\* variant: the error is published and run() then leaves its loop
PublishError_Exits ==
    /\ pc = "turn"
    /\ task["run"].pc = "raised"
    /\ LET msg == task["run"].msg
       IN  outbound' = Append(outbound,
               Published(msg.channel, msg.chat_id, ErrorReply, "error"))
    /\ task' = [task EXCEPT !["run"] = IdleTask]
    /\ pc' = "exited"
    /\ UNCHANGED << running, inbound, dequeued, sessions, memory_file,
                    spawn_context, subagents, spawned, Environment >>

\* loop.py:120-127  publish the error message
PublishError ==
    /\ pc = "turn"
    /\ task["run"].pc = "raised"
    /\ LET msg == task["run"].msg
       IN  outbound' = Append(outbound,
               Published(msg.channel, msg.chat_id, ErrorReply, "error"))
    /\ task' = [task EXCEPT !["run"] = IdleTask]
    /\ pc' = "check"
    /\ UNCHANGED << running, inbound, dequeued, sessions, memory_file,
                    spawn_context, subagents, spawned, Environment >>

\* loop.py:131-134
Stop ==
    /\ pc \notin { "start", "exited" }
    /\ running
    /\ running' = FALSE
    /\ UNCHANGED << RunFrame, outbound, TurnState, Environment >>

(* ---------------------------- environment ----------------------------- *)
\* spawn calls the turns in flight have yet to run
PendingSpawns ==
    { c \in UNION { { task[t].pending[i] : i \in 1..Len(task[t].pending) } :
                      t \in Tasks } : c.name = "spawn" }

\* a channel publishes a user message on the bus
PublishInbound ==
    /\ published + spawned + Cardinality(PendingSpawns) < MaxInbound
    /\ \E m \in UserMessages : inbound' = Append(inbound, m)
    /\ published' = published + 1
    /\ UNCHANGED << max_iterations, running, pc, dequeued, outbound, TurnState >>

\* a subagent finishes and announces its result to its origin
SubagentAnnounce ==
    /\ \E s \in subagents :
         /\ subagents' = subagents \ { s }
         /\ inbound' = Append(inbound,
                [channel |-> System, sender_id |-> <<"subagent">>,
                 chat_id |-> SessionKey(s.origin.channel, s.origin.chat_id),
                 content |-> <<"Task", " ", "finished">>])
    /\ UNCHANGED << running, pc, dequeued, outbound, sessions, memory_file,
                    spawn_context, spawned, task, Environment >>

Next ==
    \/ RunStart
    \/ LoopCheck
    \/ WaitTimeout
    \/ Consuming /\ ProcessSystemMessage("run", Head(inbound))
    \/ Consuming /\ CancelMemory("run", Head(inbound))
    \/ Consuming /\ ConfirmSave("run", Head(inbound))
    \/ Consuming /\ ConfirmSaveFails("run", Head(inbound))
    \/ Consuming /\ EditDraft("run", Head(inbound))
    \/ Consuming /\ SaveMemoryEmpty("run", Head(inbound))
    \/ Consuming /\ SaveMemoryAsk("run", Head(inbound))
    \/ Consuming /\ EnterLoop("run", Head(inbound))
    \/ InTurn /\ DraftArrives("run")
    \/ InTurn /\ DraftFails("run")
    \/ InTurn /\ CallModel("run")
    \/ InTurn /\ Exhausted("run")
    \/ InTurn /\ ChatFinal("run")
    \/ InTurn /\ ChatToolCalls("run")
    \/ InTurn /\ ChatFails("run")
    \/ InTurn /\ ToolDone("run")
    \/ PublishResponse
    \/ PublishError
    \/ PublishInbound
    \/ SubagentAnnounce

\* the loop while nobody stops it
Spec == Init /\ [][Next]_vars

\* the loop with stop() called at any moment
SpecStop == Init /\ [][Next \/ Stop]_vars

(* ------------------- origin resolution on any chat_id ------------------ *)
AddressAtoms == { "telegram", Colon, "42" }

RECURSIVE SeqsUpTo(_, _)
SeqsUpTo(S, n) ==
    IF n = 0 THEN { <<>> }
    ELSE LET shorter == SeqsUpTo(S, n - 1)
         IN  shorter \cup { Append(q, x) : q \in shorter, x \in S }

\* one system message with an arbitrary chat_id waits on the bus
InitResolve ==
    /\ max_iterations = 0
    /\ running = FALSE
    /\ pc = "start"
    /\ \E chat_id \in SeqsUpTo(AddressAtoms, MaxLen) :
         inbound = << [channel |-> System, sender_id |-> <<"subagent">>,
                       chat_id |-> chat_id, content |-> <<"Task", " ", "finished">>] >>
    /\ outbound = <<>>
    /\ sessions = <<>>
    /\ memory_file = NoFile
    /\ spawn_context = NoOrigin
    /\ subagents = {}
    /\ task = NoTasks
    /\ published = MaxInbound
    /\ spawned = 0
    /\ dequeued = 0

NextResolve ==
    \/ RunStart
    \/ LoopCheck
    \/ WaitTimeout
    \/ Consuming /\ ProcessSystemMessage("run", Head(inbound))
    \/ InTurn /\ Exhausted("run")
    \/ PublishResponse

SpecResolve == InitResolve /\ [][NextResolve]_vars

(* --------------------------- process_direct --------------------------- *)
\* loop.py:476  the default of the session_key parameter, "cli:direct"
DirectKey == SessionKey(Cli, <<"direct">>)

\* the session keys a caller passes: the default, or that of a chat
DirectSessionKeys == { DirectKey, SeededKey }

\* loop.py:488-493  the message process_direct builds
DirectMsg ==
    [channel |-> Cli, sender_id |-> <<"user">>, chat_id |-> <<"direct">>,
     content |-> task[DirectCaller].content]

\* a subagent spawned from the direct chat has announced its result, which
\* run() has yet to serve, and a caller is about to call process_direct, on
\* any session state of the direct chat
InitDirect ==
    /\ max_iterations = 1
    /\ running = FALSE
    /\ pc = "start"
    /\ inbound = << [channel |-> System, sender_id |-> <<"subagent">>,
                     chat_id |-> DirectKey,
                     content |-> <<"Task", " ", "finished">>] >>
    /\ outbound = <<>>
    /\ sessions \in { <<>>,
                      [k \in {DirectKey} |-> SeededSession],
                      [k \in {DirectKey} |-> DraftingSession] }
    /\ memory_file = NoFile
    /\ spawn_context = NoOrigin
    /\ subagents = {}
    /\ \E content \in Contents, session_key \in DirectSessionKeys :
         task = [NoTasks EXCEPT ![DirectCaller] =
                    [@ EXCEPT !.pc = "called", !.content = content,
                              !.session_key = session_key]]
    /\ published = MaxInbound
    /\ spawned = 0
    /\ dequeued = 0

\* loop.py:495  process_direct calls _process_message on its message, which
\* runs until it first awaits or returns
DirectStarting ==
    /\ task[DirectCaller].pc = "called"
    /\ task["direct"].pc = "idle"
    /\ UNCHANGED << running, RunFrame, outbound, Environment >>

\* loop.py:495  process_direct awaits its turn, which takes a step
InDirect ==
    /\ task[DirectCaller].pc = "called"
    /\ UNCHANGED << running, RunFrame, outbound, Environment >>

\* loop.py:496  return response.content if response else ""
DirectReturn ==
    /\ task[DirectCaller].pc = "called"
    /\ task["direct"].pc = "returned"
    /\ task' = [task EXCEPT ![DirectCaller] =
           [@ EXCEPT !.pc = "done",
                     !.returned = Some(task["direct"].result[1].content)]]
    /\ UNCHANGED << running, RunFrame, outbound, sessions, memory_file,
                    spawn_context, subagents, spawned, Environment >>

\* loop.py:495  what the turn raises reaches the caller of process_direct
DirectRaise ==
    /\ task[DirectCaller].pc = "called"
    /\ task["direct"].pc = "raised"
    /\ task' = [task EXCEPT ![DirectCaller] = [@ EXCEPT !.pc = "raised"]]
    /\ UNCHANGED << running, RunFrame, outbound, sessions, memory_file,
                    spawn_context, subagents, spawned, Environment >>

NextDirect ==
    \/ RunStart
    \/ LoopCheck
    \/ WaitTimeout
    \/ Consuming /\ ProcessSystemMessage("run", Head(inbound))
    \/ InTurn /\ CallModel("run")
    \/ InTurn /\ Exhausted("run")
    \/ InTurn /\ ChatFinal("run")
    \/ InTurn /\ ChatToolCalls("run")
    \/ InTurn /\ ChatFails("run")
    \/ InTurn /\ ToolDone("run")
    \/ PublishResponse
    \/ PublishError
    \/ DirectStarting /\ CancelMemory("direct", DirectMsg)
    \/ DirectStarting /\ ConfirmSave("direct", DirectMsg)
    \/ DirectStarting /\ ConfirmSaveFails("direct", DirectMsg)
    \/ DirectStarting /\ EditDraft("direct", DirectMsg)
    \/ DirectStarting /\ SaveMemoryEmpty("direct", DirectMsg)
    \/ DirectStarting /\ SaveMemoryAsk("direct", DirectMsg)
    \/ DirectStarting /\ EnterLoop("direct", DirectMsg)
    \/ InDirect /\ DraftArrives("direct")
    \/ InDirect /\ DraftFails("direct")
    \/ InDirect /\ CallModel("direct")
    \/ InDirect /\ Exhausted("direct")
    \/ InDirect /\ ChatFinal("direct")
    \/ InDirect /\ ChatToolCalls("direct")
    \/ InDirect /\ ChatFails("direct")
    \/ InDirect /\ ToolDone("direct")
    \/ DirectReturn
    \/ DirectRaise

\* process_direct called once while run() serves the bus
SpecDirect == InitDirect /\ [][NextDirect]_vars

(* ------------------- append_long_term on any content ------------------- *)
TextAtoms == { " ", "\n", "fact" }

\* the store before the call: no file, the template, the template with an
\* earlier entry, a file somebody emptied
StoredFiles ==
    { NoFile,
      [exists |-> TRUE, text |-> Template],
      [exists |-> TRUE, text |-> Template \o <<Separator, "earlier", "\n">>],
      [exists |-> TRUE, text |-> <<>>] }

\* a caller is about to call append_long_term(content)
InitAppend ==
    /\ max_iterations = 0
    /\ running = FALSE
    /\ pc = "start"
    /\ inbound = <<>>
    /\ outbound = <<>>
    /\ sessions = <<>>
    /\ memory_file \in StoredFiles
    /\ spawn_context = NoOrigin
    /\ subagents = {}
    /\ \E content \in SeqsUpTo(TextAtoms, MaxLen) :
         task = [NoTasks EXCEPT ![StoreCaller] =
                    [@ EXCEPT !.pc = "called", !.content = content]]
    /\ published = MaxInbound
    /\ spawned = 0
    /\ dequeued = 0

\* memory.py:91-103  the call runs
AppendCall ==
    /\ task[StoreCaller].pc = "called"
    /\ memory_file' = AppendLongTerm(memory_file, task[StoreCaller].content)
    /\ task' = [task EXCEPT ![StoreCaller] =
           [@ EXCEPT !.pc = "done", !.before = memory_file]]
    /\ UNCHANGED << running, RunFrame, outbound, sessions, spawn_context,
                    subagents, spawned, Environment >>

NextAppend == AppendCall

SpecAppend == InitAppend /\ [][NextAppend]_vars

(* ------------------------ subagent report-back ------------------------- *)
\* the channels of the conversations that spawn: one name with a colon in it
ReportChannels == { <<"telegram">>, <<"a", Colon, "b">> }

\* a conversation has sent the message whose turn may spawn subagents; the
\* model backend answers every call
InitReport ==
    /\ max_iterations \in 1..MaxIter
    /\ running = FALSE
    /\ pc = "start"
    /\ \E channel \in ReportChannels, chat_id \in ChatIds :
         inbound = << [channel |-> channel, sender_id |-> <<"u">>,
                       chat_id |-> chat_id, content |-> <<" ", "Note", " ">>] >>
    /\ outbound = <<>>
    /\ sessions = <<>>
    /\ memory_file = NoFile
    /\ spawn_context = NoOrigin
    /\ subagents = {}
    /\ task = NoTasks
    /\ published = 1
    /\ spawned = 0
    /\ dequeued = 0

NextReport ==
    \/ RunStart
    \/ LoopCheck
    \/ WaitTimeout
    \/ Consuming /\ ProcessSystemMessage("run", Head(inbound))
    \/ Consuming /\ EnterLoop("run", Head(inbound))
    \/ InTurn /\ CallModel("run")
    \/ InTurn /\ Exhausted("run")
    \/ InTurn /\ ChatFinal("run")
    \/ InTurn /\ ChatToolCalls("run")
    \/ InTurn /\ ToolDone("run")
    \/ PublishResponse
    \/ SubagentAnnounce

\* run() is scheduled as long as it has a step to take, and so is a subagent
\* that finished
SpecReport == InitReport /\ [][NextReport]_vars /\ WF_vars(NextReport)

(* --------------------------- cooperative stop -------------------------- *)
\* two ordinary messages of two chats wait on the bus
InitStopLive ==
    /\ max_iterations \in 0..MaxIter
    /\ running = FALSE
    /\ pc = "start"
    /\ inbound = << [channel |-> <<"telegram">>, sender_id |-> <<"u">>,
                     chat_id |-> <<"42">>, content |-> <<" ", "Note", " ">>],
                    [channel |-> <<"telegram">>, sender_id |-> <<"u">>,
                     chat_id |-> <<"g", Colon, "7">>,
                     content |-> <<" ", "Note", " ">>] >>
    /\ outbound = <<>>
    /\ sessions = <<>>
    /\ memory_file = NoFile
    /\ spawn_context = NoOrigin
    /\ subagents = {}
    /\ task = NoTasks
    /\ published = MaxInbound
    /\ spawned = 0
    /\ dequeued = 0

\* the steps of run() and of the turn it awaits
RunSteps ==
    \/ RunStart
    \/ LoopCheck
    \/ WaitTimeout
    \/ Consuming /\ EnterLoop("run", Head(inbound))
    \/ InTurn /\ CallModel("run")
    \/ InTurn /\ Exhausted("run")
    \/ InTurn /\ ChatFinal("run")
    \/ InTurn /\ ChatToolCalls("run")
    \/ InTurn /\ ChatFails("run")
    \/ InTurn /\ ToolDone("run")
    \/ PublishResponse
    \/ PublishError

\* stop() called at any moment; run(), the turn it awaits and the collaborators
\* the turn awaits are scheduled as long as they have a step to take
SpecStopLive == InitStopLive /\ [][RunSteps \/ Stop]_vars /\ WF_vars(RunSteps)

(* ============================== claims ================================ *)
\* the turn of task t has returned its reply and run() has not published it yet
TurnReturned(t) == task[t].pc = "returned"
InFlight(t) == task[t].pc # "idle"

\* the session of the turn of task t, before the turn and now
SessionBefore(t) == GetOrCreate(task[t].pre.sessions, task[t].key)
SessionNow(t) == GetOrCreate(sessions, task[t].key)

CountCalls(log, tools) == Cardinality({ i \in 1..Len(log) : log[i].tools = tools })

Reply(t) == task[t].result[1]

\* C1 (as claimed): in every turn of any kind, for every max_iterations, the
\* number of provider.chat invocations is at most max_iterations.
C1_CallsAtMostMaxIterations ==
    \A t \in Tasks : Len(task[t].chat_log) <= max_iterations

\* C1 (amended): the invocations the tool loop makes in a turn (those given the
\* tool schemas) number at most max_iterations; a turn makes at most one draft
\* invocation (given no tool schemas), never together with a tool-loop
\* invocation, whatever max_iterations is.
C1_LoopCallsAtMostMaxIterations ==
    \A t \in Tasks :
        /\ CountCalls(task[t].chat_log, "definitions") <= max_iterations
        /\ CountCalls(task[t].chat_log, "none") <= 1
        /\ CountCalls(task[t].chat_log, "none") = 1
               => CountCalls(task[t].chat_log, "definitions") = 0

\* C1 witness: a turn used up all of two iterations and returned
C1_Witness ==
    /\ max_iterations = 2
    /\ TurnReturned("run")
    /\ Len(task["run"].chat_log) = 2

\* the turn of task t was handled by the memory-confirmation state machine:
\* a user message that asks to save, or any non-blank text while a draft awaits
MemoryTurn(t) ==
    /\ task[t].msg.channel # System
    /\ \/ Awaiting(SessionBefore(t)) /\ ~IsBlank(task[t].msg.content)
       \/ ~Awaiting(SessionBefore(t)) /\ IsSaveMemory(task[t].msg.content)

GrewByUserThenAssistant(before, now) ==
    /\ Len(now) = Len(before) + 2
    /\ SubSeq(now, 1, Len(before)) = before
    /\ now[Len(before) + 1].role = "user"
    /\ now[Len(before) + 2].role = "assistant"

GrowsOK(t) ==
    GrewByUserThenAssistant(SessionBefore(t).messages, SessionNow(t).messages)

\* C2 (as claimed): every turn that completes, whatever the memory-confirmation
\* state, grows the session's history by exactly a user and an assistant entry.
C2_EveryTurnGrowsHistoryByTwo ==
    \A t \in Tasks :
        TurnReturned(t) =>
            GrowsOK(t)

\* C2 (amended): every completed turn that runs the tool loop (ordinary or
\* system-originated) grows the session's history by exactly two entries, a
\* user entry followed by an assistant entry, however many tool calls ran; a
\* completed turn handled by the memory-confirmation state machine leaves the
\* history unchanged.
C2_LoopTurnGrowsHistoryByTwo ==
    \A t \in Tasks :
        TurnReturned(t) =>
            IF MemoryTurn(t)
            THEN SessionNow(t).messages = SessionBefore(t).messages
            ELSE GrowsOK(t)

\* C2 witness: a turn that ran tool calls has returned
C2_Witness ==
    /\ TurnReturned("run")
    /\ \E i \in 1..Len(task["run"].messages) : task["run"].messages[i].role = "tool"
    /\ Len(SessionNow("run").messages) = Len(SessionBefore("run").messages) + 2

\* C3: for every inbound message run() consumes it publishes at most one
\* OutboundMessage (the reply, or the error message if the turn raised, never
\* both), and it does so before it consumes the next message: a message is
\* consumed only when no turn is in flight and the message before it has had its
\* reply or error published; what is published is the outcome of the turn of
\* the message consumed last.
C3_OnePublishPerMessage ==
    [][ /\ Len(outbound') <= 1
        /\ dequeued' # dequeued =>
               /\ task["run"].pc = "idle"
               /\ dequeued > 0 => Len(outbound) = 1
        /\ outbound' # outbound /\ outbound' # <<>> =>
               /\ dequeued' = dequeued
               /\ outbound = <<>>
               /\ outbound'[1].turn = dequeued
               /\ \/ /\ task["run"].pc = "returned"
                     /\ outbound'[1].kind = "reply"
                     /\ outbound'[1].content = Reply("run").content
                  \/ /\ task["run"].pc = "raised"
                     /\ outbound'[1].kind = "error"
               /\ task'["run"].pc = "idle"
      ]_vars

\* C3 witness: the first message has been answered with an error while a second
\* message waits on the bus
C3_Witness ==
    /\ dequeued = 1
    /\ Len(outbound) = 1
    /\ outbound[1].kind = "error"
    /\ inbound # <<>>

\* the number of colons of s
Colons(s) == Cardinality({ i \in 1..Len(s) : s[i] = Colon })

\* C4: the chat_id of a system message resolves to the text before its first
\* colon and everything after that colon ("telegram:42" gives "telegram" and
\* "42"); without a colon it resolves to the channel "cli" and the whole
\* chat_id; resolution fails for no chat_id.
C4_OriginResolution ==
    \A t \in Tasks :
        InFlight(t) /\ task[t].msg.channel = System =>
            LET chat_id == task[t].msg.chat_id
                origin == task[t].origin
            IN  /\ task[t].pc = "raised" => task[t].chat_log # <<>>
                /\ Colons(chat_id) > 0 =>
                       /\ Colons(origin.channel) = 0
                       /\ origin.channel \o <<Colon>> \o origin.chat_id = chat_id
                /\ Colons(chat_id) = 0 =>
                       /\ origin.channel = <<"cli">>
                       /\ origin.chat_id = chat_id
                /\ chat_id = <<"telegram", Colon, "42">> =>
                       /\ origin.channel = <<"telegram">>
                       /\ origin.chat_id = <<"42">>

\* C4 witness: a chat_id with two colons has been resolved
C4_Witness ==
    /\ InFlight("run")
    /\ task["run"].msg.channel = System
    /\ Colons(task["run"].msg.chat_id) = 2
    /\ Colons(task["run"].origin.chat_id) = 1

\* the text before the first colon of a session key
KeyChannel(k) == SubSeq(k, 1, (CHOOSE i \in 1..Len(k) :
                                  k[i] = Colon /\ \A j \in 1..(i - 1) : k[j] # Colon) - 1)

\* C5: the turn of a system message reads and changes the session keyed by the
\* resolved origin and no other, and its reply is addressed to the resolved
\* origin; no session keyed by the system channel or by the sender of a system
\* message exists, and no reply is addressed to the system channel.
C5_SystemTurnUsesOrigin ==
    /\ \A t \in Tasks :
           TurnReturned(t) /\ task[t].msg.channel = System =>
               LET origin == ResolveOrigin(task[t].msg.chat_id)
                   key == origin.channel \o <<Colon>> \o origin.chat_id
               IN  /\ key \in DOMAIN sessions
                   /\ GrewByUserThenAssistant(
                          GetOrCreate(task[t].pre.sessions, key).messages,
                          sessions[key].messages)
                   /\ \A k \in DOMAIN sessions :
                          k # key =>
                              /\ k \in DOMAIN task[t].pre.sessions
                              /\ sessions[k] = task[t].pre.sessions[k]
                   /\ Reply(t).channel = origin.channel
                   /\ Reply(t).chat_id = origin.chat_id
    /\ \A k \in DOMAIN sessions : KeyChannel(k) \notin { System, <<"subagent">> }
    /\ \A i \in 1..Len(outbound) :
           outbound[i].kind = "reply" => outbound[i].channel # System

\* C5 witness: the turn of a subagent's announcement has returned while the
\* session of another chat exists
C5_Witness ==
    /\ TurnReturned("run")
    /\ task["run"].msg.channel = System
    /\ task["run"].key = <<"telegram", Colon, "g", Colon, "7">>
    /\ Cardinality(DOMAIN sessions) = 2

(* ------------------- the memory-confirmation machine ------------------- *)
\* part occurs in text
Contains(text, part) ==
    \E i \in 1..(Len(text) - Len(part) + 1) :
        SubSeq(text, i, i + Len(part) - 1) = part

\* trimmed is text without the whitespace at its two ends
IsTrimOf(trimmed, text) ==
    /\ trimmed # <<>>
    /\ Head(trimmed) \notin Whitespace
    /\ trimmed[Len(trimmed)] \notin Whitespace
    /\ \E a, b \in SeqsUpTo(Whitespace, Len(text)) : a \o trimmed \o b = text

UserTurn(t) == InFlight(t) /\ task[t].msg.channel # System

MetadataCleared(session) ==
    /\ AwaitingKey \notin DOMAIN session.metadata
    /\ DraftKey \notin DOMAIN session.metadata

\* the text the model produced as the draft of the turn of task t
Produced(t) == OrEmpty(task[t].draft_resp[1])

\* C6 (as claimed): with no draft in flight and a non-empty history, a
\* request-save phrase causes exactly one model invocation, with no tool
\* schemas, after which awaiting_confirm is true, draft holds the produced
\* text, the reply contains that draft and the history is unchanged.
C6_SaveRequestStoresProducedText ==
    \A t \in Tasks :
        ( /\ UserTurn(t)
          /\ TurnReturned(t)
          /\ ~Awaiting(SessionBefore(t))
          /\ SessionBefore(t).messages # <<>>
          /\ IsSaveMemory(task[t].msg.content) )
        =>
        /\ task[t].chat_log = << [tools |-> "none"] >>
        /\ task[t].draft_resp # None
        /\ Awaiting(SessionNow(t))
        /\ SessionNow(t).metadata[DraftKey] = Produced(t)
        /\ Contains(Reply(t).content, Produced(t))
        /\ SessionNow(t).messages = SessionBefore(t).messages

\* C6 (amended): with no draft in flight and a history that has at least one
\* entry with non-blank content, a request-save phrase causes exactly one model
\* invocation, with no tool schemas; when it returns, awaiting_confirm is true,
\* draft holds the produced text trimmed (or the fixed placeholder if that is
\* empty), the reply contains that draft and the history is unchanged.
C6_SaveRequestStoresTrimmedDraft ==
    \A t \in Tasks :
        ( /\ UserTurn(t)
          /\ ~Awaiting(SessionBefore(t))
          /\ \E i \in 1..Len(SessionBefore(t).messages) :
                 ~IsBlank(SessionBefore(t).messages[i].content)
          /\ IsSaveMemory(task[t].msg.content) )
        =>
        /\ task[t].chat_log = << [tools |-> "none"] >>
        /\ TurnReturned(t) =>
               LET draft == SessionNow(t).metadata[DraftKey]
               IN  /\ task[t].draft_resp # None
                   /\ Awaiting(SessionNow(t))
                   /\ IF IsBlank(Produced(t))
                      THEN draft = DraftPlaceholder
                      ELSE IsTrimOf(draft, Produced(t))
                   /\ Contains(Reply(t).content, draft)
                   /\ SessionNow(t).messages = SessionBefore(t).messages

\* C6 witness: the model's padded text was stored trimmed as the draft
C6_Witness ==
    /\ UserTurn("run")
    /\ TurnReturned("run")
    /\ Awaiting(SessionNow("run"))
    /\ ~Awaiting(SessionBefore("run"))
    /\ Produced("run") = <<" ", "Summary", "\n">>
    /\ SessionNow("run").metadata[DraftKey] = <<"Summary">>

\* the long-term memory file before the turn of task t
FileBefore(t) == task[t].pre.memory_file

\* the text of the file after one entry was appended to it
WithEntry(file, entry) ==
    (IF file.exists THEN file.text ELSE Template)
        \o <<Separator>> \o entry \o <<"\n">>

\* C7: while a session awaits confirmation with a non-empty draft, a message
\* whose normalized text is the confirm phrase or the request-save phrase
\* appends the current draft to long-term storage exactly once, leaves
\* awaiting_confirm and draft absent, makes no model invocation and replies
\* with the success acknowledgment.
C7_ConfirmAppendsDraft ==
    \A t \in Tasks :
        ( /\ UserTurn(t)
          /\ TurnReturned(t)
          /\ Awaiting(SessionBefore(t))
          /\ DraftKey \in DOMAIN SessionBefore(t).metadata
          /\ ~IsBlank(SessionBefore(t).metadata[DraftKey])
          /\ Normalized(task[t].msg.content) \in
                 { <<"save">>, <<"sokhranit">>,
                   <<"save", " ", "to", " ", "memory">>,
                   <<"sokhranit", " ", "v", " ", "pamyati">> } )
        =>
        /\ memory_file.exists
        /\ memory_file.text =
               WithEntry(FileBefore(t), SessionBefore(t).metadata[DraftKey])
        /\ MetadataCleared(SessionNow(t))
        /\ task[t].chat_log = <<>>
        /\ Reply(t).content = SavedAck

\* C7 witness: the confirmed draft is the text the user sent as an edit
C7_Witness ==
    /\ UserTurn("run")
    /\ TurnReturned("run")
    /\ Reply("run").content = SavedAck
    /\ Awaiting(SessionBefore("run"))
    /\ SessionBefore("run").metadata[DraftKey] = <<"Note">>
    /\ Contains(memory_file.text, <<"Note">>)

\* the cancel transition, seen when the turn of task t has returned
CancelClearsDraft(t) ==
    ( /\ UserTurn(t)
      /\ TurnReturned(t)
      /\ Awaiting(SessionBefore(t))
      /\ Normalized(task[t].msg.content) \in { <<"cancel">>, <<"otmena">> } )
    =>
    /\ MetadataCleared(SessionNow(t))
    /\ memory_file = FileBefore(t)
    /\ task[t].chat_log = <<>>
    /\ SessionNow(t).messages = SessionBefore(t).messages
    /\ Reply(t).content = CancelAck

\* a step that writes to long-term storage appends the draft that some session
\* holds while awaiting confirmation, and clears that session's draft
WritesOnlyDraftInFlight ==
    memory_file' # memory_file =>
        \E k \in DOMAIN sessions :
            /\ Awaiting(sessions[k])
            /\ DraftKey \in DOMAIN sessions[k].metadata
            /\ memory_file'.text =
                   WithEntry(memory_file, sessions[k].metadata[DraftKey])
            /\ MetadataCleared(sessions'[k])

\* C8: while a session awaits confirmation, a cancel phrase leaves
\* awaiting_confirm and draft absent, writes nothing to long-term storage,
\* makes no model invocation, leaves the history unchanged and replies with the
\* cancellation acknowledgment; and no later turn can write the cancelled
\* draft, since every write appends the draft a session then holds.
C8_CancelDiscardsDraft ==
    [][ /\ \A t \in Tasks : CancelClearsDraft(t)'
        /\ WritesOnlyDraftInFlight ]_vars

\* C8 witness: a draft was cancelled and the turn has returned
C8_Witness ==
    /\ UserTurn("run")
    /\ TurnReturned("run")
    /\ Reply("run").content = CancelAck
    /\ SessionBefore("run").metadata[DraftKey] = <<"Draft">>
    /\ ~memory_file.exists

EditText(t) ==
    /\ UserTurn(t)
    /\ TurnReturned(t)
    /\ Awaiting(SessionBefore(t))
    /\ ~IsConfirmSave(task[t].msg.content)
    /\ ~IsSaveMemory(task[t].msg.content)
    /\ ~IsCancelMemory(task[t].msg.content)

\* C9 (as claimed): while a session awaits confirmation, any non-empty text that
\* is no confirm, request-save or cancel phrase becomes the draft exactly as
\* sent; the session keeps awaiting, nothing is written to long-term storage, no
\* model invocation occurs and the reply echoes the updated draft.
C9_EditStoresExactText ==
    \A t \in Tasks :
        EditText(t) /\ task[t].msg.content # <<>> =>
            /\ SessionNow(t).metadata[DraftKey] = task[t].msg.content
            /\ Awaiting(SessionNow(t))
            /\ memory_file = FileBefore(t)
            /\ task[t].chat_log = <<>>
            /\ Contains(Reply(t).content, task[t].msg.content)

\* C9 (amended): while a session awaits confirmation, any text that is not
\* blank and is no confirm, request-save or cancel phrase becomes the draft
\* with the whitespace at its two ends removed; the session keeps awaiting,
\* nothing is written to long-term storage, no model invocation occurs and the
\* reply echoes the updated draft.
C9_EditStoresTrimmedText ==
    \A t \in Tasks :
        EditText(t) /\ ~IsBlank(task[t].msg.content) =>
            /\ IsTrimOf(SessionNow(t).metadata[DraftKey], task[t].msg.content)
            /\ Awaiting(SessionNow(t))
            /\ memory_file = FileBefore(t)
            /\ task[t].chat_log = <<>>
            /\ Contains(Reply(t).content, SessionNow(t).metadata[DraftKey])

\* C9 witness: the draft was replaced by the user's text
C9_Witness ==
    /\ EditText("run")
    /\ SessionBefore("run").metadata[DraftKey] = <<"Draft">>
    /\ SessionNow("run").metadata[DraftKey] = <<"Note">>

\* C10: with no draft in flight and a history without content (no entry, or
\* blank entries only), a request-save phrase is answered with "nothing to save":
\* no model invocation, no change of the metadata or the history, no write to
\* long-term storage.
C10_NothingToSave ==
    \A t \in Tasks :
        ( /\ UserTurn(t)
          /\ ~Awaiting(SessionBefore(t))
          /\ \A i \in 1..Len(SessionBefore(t).messages) :
                 IsBlank(SessionBefore(t).messages[i].content)
          /\ Normalized(task[t].msg.content) \in
                 { <<"save", " ", "to", " ", "memory">>,
                   <<"sokhranit", " ", "v", " ", "pamyati">> } )
        =>
        /\ TurnReturned(t)
        /\ Reply(t).content = NothingToSave
        /\ task[t].chat_log = <<>>
        /\ SessionNow(t).metadata = SessionBefore(t).metadata
        /\ SessionNow(t).messages = SessionBefore(t).messages
        /\ memory_file = FileBefore(t)

\* C10 witness: the history holds entries, all of them blank
C10_Witness ==
    /\ UserTurn("run")
    /\ TurnReturned("run")
    /\ Reply("run").content = NothingToSave
    /\ Len(SessionBefore("run").messages) = 2

\* no draft is present in the session
NoDraft(session) ==
    \/ DraftKey \notin DOMAIN session.metadata
    \/ IsBlank(session.metadata[DraftKey])

\* the turn of task t went into the tool loop
LoopTurn(t) ==
    \/ task[t].pc \in { "loop", "chat", "tool", "raised" }
    \/ /\ TurnReturned(t)
       /\ Len(SessionNow(t).messages) = Len(SessionBefore(t).messages) + 2

\* C11 (as claimed): on a session where no draft is present (the draft was
\* confirmed, or there never was one), a confirm phrase is answered with the
\* "no draft" message and nothing is written to long-term storage.
C11_ConfirmAgainSaysNoDraft ==
    \A t \in Tasks :
        ( /\ UserTurn(t)
          /\ TurnReturned(t)
          /\ NoDraft(SessionBefore(t))
          /\ IsConfirmSave(task[t].msg.content) )
        =>
        /\ Reply(t).content = NoDraftReply
        /\ memory_file = FileBefore(t)

\* a confirm phrase on a session that is not awaiting confirmation
ConfirmWithoutDraft(t) ==
    ( /\ UserTurn(t)
      /\ ~Awaiting(SessionBefore(t))
      /\ IsConfirmSave(task[t].msg.content) )
    =>
    /\ memory_file = FileBefore(t)
    /\ LoopTurn(t)
    /\ TurnReturned(t) => Reply(t).content \notin { SavedAck, NoDraftReply }

\* the "no draft" message answers only a session that awaits with no draft
NoDraftReplyOnlyWhileAwaiting(t) ==
    ( UserTurn(t) /\ TurnReturned(t) /\ Reply(t).content = NoDraftReply )
    =>
    Awaiting(SessionBefore(t)) /\ NoDraft(SessionBefore(t))

\* C11 (amended): each draft is appended to long-term storage at most once:
\* every write appends the draft of a session that awaits confirmation and
\* leaves that session with neither awaiting_confirm nor draft; a confirm phrase
\* on a session that is not awaiting (the draft was confirmed, or there was
\* none) writes nothing and is processed as an ordinary message by the tool
\* loop; the "no draft" message answers only a confirm on a session that
\* awaits confirmation with an empty draft.
C11_DraftAppendedAtMostOnce ==
    [][ /\ WritesOnlyDraftInFlight
        /\ \A t \in Tasks :
               ConfirmWithoutDraft(t)' /\ NoDraftReplyOnlyWhileAwaiting(t)' ]_vars

\* C11 witness: after a draft was confirmed and written, a second confirm
\* phrase on the same session has been answered
C11_Witness ==
    /\ memory_file.exists
    /\ UserTurn("run")
    /\ TurnReturned("run")
    /\ task["run"].key = SeededKey
    /\ IsConfirmSave(task["run"].msg.content)
    /\ ~Awaiting(SessionBefore("run"))
    /\ FileBefore("run") = memory_file

\* awaiting_confirm and draft are in the metadata together or not at all
KeysTogether(session) ==
    (AwaitingKey \in DOMAIN session.metadata)
        <=> (DraftKey \in DOMAIN session.metadata)

\* C12: in every reachable state, whatever turns came before (request-save,
\* confirm, cancel, edit, ordinary and system-originated turns), every session
\* has awaiting_confirm and draft either both present or both absent.
C12_KeysBothOrNeither ==
    \A k \in DOMAIN sessions : KeysTogether(sessions[k])

\* C12 witness: a draft turn has stored both keys in a session that had neither
C12_Witness ==
    /\ UserTurn("run")
    /\ TurnReturned("run")
    /\ MetadataCleared(SessionBefore("run"))
    /\ AwaitingKey \in DOMAIN SessionNow("run").metadata
    /\ DraftKey \in DOMAIN SessionNow("run").metadata

\* a tool ran in the turn of task t
ToolExecuted(t) ==
    \E i \in 1..Len(task[t].messages) : task[t].messages[i].role = "tool"

\* C13: whenever the session of a turn has a draft in flight, the turn (for any
\* text, from a user or from a system message resolved to that session) is
\* handled by the confirmation state machine alone: no tool-loop model call, no
\* tool execution, nothing appended to the history, and with blank text no
\* change of awaiting_confirm and draft.
C13_DraftingSkipsToolLoop ==
    \A t \in Tasks :
        ( InFlight(t) /\ Awaiting(SessionBefore(t)) )
        =>
        /\ CountCalls(task[t].chat_log, "definitions") = 0
        /\ ~ToolExecuted(t)
        /\ task[t].pc \notin { "loop", "chat", "tool" }
        /\ SessionNow(t).messages = SessionBefore(t).messages
        /\ IsBlank(task[t].msg.content) =>
               SessionNow(t).metadata = SessionBefore(t).metadata

\* run() takes a step while the turn it awaited has raised
FailureHandled ==
    ( /\ pc = "turn"
      /\ task["run"].pc = "raised"
      /\ << pc, task["run"], outbound >>' # << pc, task["run"], outbound >> )
    =>
    /\ Len(outbound') = Len(outbound) + 1
    /\ outbound'[Len(outbound')].kind = "error"
    /\ outbound'[Len(outbound')].content = ErrorReply
    /\ pc' = "check"
    /\ inbound' = inbound

\* C14: a turn that raises (a model-backend failure included) never ends the
\* run loop: run() publishes one failure message in place of the reply and goes
\* back to the head of its loop, from where it waits for the next inbound
\* message as long as it is running; it leaves the loop only with the running
\* flag cleared, and only stop() clears that flag.
C14_RunSurvivesFailures ==
    [][ /\ FailureHandled
        /\ (pc = "check" /\ running /\ pc' # pc) => pc' = "wait"
        /\ (pc # "exited" /\ pc' = "exited") => (pc = "check" /\ ~running)
        /\ (running /\ ~running') =>
               UNCHANGED << RunFrame, outbound, TurnState, Environment >> ]_vars

\* C14 witness: a failure message was published for a turn and run(), still
\* running, waits again with the next message in the queue
C14_Witness ==
    /\ pc = "wait"
    /\ running
    /\ inbound # <<>>
    /\ outbound # <<>>
    /\ outbound[Len(outbound)].kind = "error"

\* C15: the failure message of a turn that raised is addressed to the
\* destination the turn's reply would have had: the channel and chat of the
\* conversation, which for a system-originated turn are the resolved origin.
C15_FailureGoesToReplyDestination ==
    [][ ( /\ pc = "turn"
          /\ task["run"].pc = "raised"
          /\ Len(outbound') = Len(outbound) + 1 )
        =>
        /\ outbound'[Len(outbound')].channel = task["run"].origin.channel
        /\ outbound'[Len(outbound')].chat_id = task["run"].origin.chat_id ]_vars

\* the turn of task t is under way: it awaits the model or a tool
Active(t) == task[t].pc \in { "draft", "loop", "chat", "tool" }

\* C16: at every instant at most one turn in flight is reading or mutating a
\* Session's history or metadata: no two turns are under way on one session,
\* and a subagent's result reaches the parent session only in the turn run()
\* makes of its system message, with no other turn under way on that session.
C16_OneTurnPerSession ==
    \A t1, t2 \in Tasks :
        (t1 # t2 /\ Active(t1) /\ Active(t2)) => task[t1].key # task[t2].key

\* C20: process_direct(content, session_key) runs its turn on the session its
\* session_key argument names, and returns the text of that turn's reply.
C20_DirectRunsOnSessionKey ==
    /\ InFlight("direct") =>
           task["direct"].key = task[DirectCaller].session_key
    /\ task[DirectCaller].pc = "done" =>
           task[DirectCaller].returned = Some(Reply("direct").content)

\* the responses with tool calls the model gave in the turn of task t
ToolCallResponses(t) ==
    Cardinality({ i \in 1..Len(task[t].messages) :
                      "tool_calls" \in DOMAIN task[t].messages[i] })

\* the turn of task t went through the tool loop and has returned
LoopTurnReturned(t) ==
    /\ TurnReturned(t)
    /\ CountCalls(task[t].chat_log, "none") = 0
    /\ Len(SessionNow(t).messages) = Len(SessionBefore(t).messages) + 2

\* the last entry of the history of the session of task t
LastEntry(t) == SessionNow(t).messages[Len(SessionNow(t).messages)]

\* the fallback text as the specification words it
ClaimedFallback == <<"processing incomplete, no answer produced">>

\* C17 (as claimed): the reply of a tool-loop turn, and its assistant entry, is
\* the content of the first response without tool calls; if max_iterations
\* responses in a row had tool calls, the reply is the one fallback text
\* "processing incomplete, no answer produced", for user and system turns alike.
C17_ReplyOrClaimedFallback ==
    \A t \in Tasks :
        LoopTurnReturned(t) =>
            /\ Len(task[t].chat_log) <= ToolCallResponses(t) + 1
            /\ Len(task[t].chat_log) = ToolCallResponses(t) + 1 =>
                   /\ Reply(t).content = OrEmpty(task[t].final)
                   /\ LastEntry(t).content = OrEmpty(task[t].final)
            /\ Len(task[t].chat_log) = ToolCallResponses(t) =>
                   /\ ToolCallResponses(t) = max_iterations
                   /\ Reply(t).content = ClaimedFallback

\* the text the code falls back on, by the kind of the turn
FallbackOf(t) ==
    IF task[t].msg.channel = System
    THEN <<"Background task completed.">>
    ELSE <<"I've completed processing but have no response to give.">>

\* C17 (amended): the tool loop stops at the first response without tool calls,
\* and the reply and the assistant entry are that response's content if it has
\* one; if it has none (null content), or if max_iterations responses in a row
\* had tool calls, the turn does not fail and the reply and the assistant entry
\* are a fixed fallback text, which is "I've completed processing but have no
\* response to give." in a user turn and "Background task completed." in a
\* system-originated turn.
C17_ReplyOrFallbackOfTurnKind ==
    \A t \in Tasks :
        LoopTurnReturned(t) =>
            LET answered == Len(task[t].chat_log) = ToolCallResponses(t) + 1
                text == IF answered /\ task[t].final # None
                        THEN task[t].final[1]
                        ELSE FallbackOf(t)
            IN  /\ Len(task[t].chat_log) <= ToolCallResponses(t) + 1
                /\ ~answered =>
                       /\ ToolCallResponses(t) = max_iterations
                       /\ task[t].final = None
                /\ Reply(t).content = text
                /\ LastEntry(t) = [role |-> "assistant", content |-> text]

\* C17 witness: a system-originated turn used every iteration on tool calls and
\* returned its fallback text
C17_Witness ==
    /\ LoopTurnReturned("run")
    /\ task["run"].msg.channel = System
    /\ max_iterations >= 1
    /\ ToolCallResponses("run") = max_iterations
    /\ Reply("run").content = <<"Background task completed.">>

\* a history entry that is a user input or an assistant answer, nothing else
Conversational(entry) ==
    /\ DOMAIN entry = { "role", "content" }
    /\ entry.role \in { "user", "assistant" }

\* C18: after any sequence of turns, every entry of every session's history is
\* conversational (a turn's user input or its final assistant answer): the
\* assistant tool-call entries and the tool results of a turn's iterations are
\* in the turn's own message list only.
C18_HistoryIsConversational ==
    \A k \in DOMAIN sessions :
        \A i \in 1..Len(sessions[k].messages) :
            Conversational(sessions[k].messages[i])

\* C18 witness: a turn that called tools and ran them has committed its two
\* entries to the history
C18_Witness ==
    /\ LoopTurnReturned("run")
    /\ ToolExecuted("run")
    /\ ToolCallResponses("run") >= 1
    /\ Len(task["run"].messages) > Len(SessionNow("run").messages)

\* C19: append_long_term never overwrites. With text that is not blank, the
\* store afterwards is what it held before (the default template if there was
\* no store), then the separator, then the text without the whitespace at its
\* two ends, closed by a line end: all that was stored before is still there,
\* in its order. With empty or blank text nothing changes and no store is
\* created.
C19_AppendNeverOverwrites ==
    task[StoreCaller].pc = "done" =>
        LET before == task[StoreCaller].before
            text == task[StoreCaller].content
            base == IF before.exists THEN before.text ELSE Template
        IN  IF IsBlank(text)
            THEN memory_file = before
            ELSE /\ memory_file.exists
                 /\ SubSeq(memory_file.text, 1, Len(base)) = base
                 /\ \E i, j \in 1..Len(text) :
                        /\ IsTrimOf(SubSeq(text, i, j), text)
                        /\ memory_file.text =
                               base \o <<Separator>> \o SubSeq(text, i, j)
                                    \o <<"\n">>

\* C19 witness: a padded text was appended to a store that held an entry
C19_Witness ==
    /\ task[StoreCaller].pc = "done"
    /\ Contains(task[StoreCaller].before.text, <<"earlier">>)
    /\ task[StoreCaller].content = <<" ", "fact", "\n">>
    /\ Contains(memory_file.text, <<"earlier">>)
    /\ Contains(memory_file.text, <<Separator, "fact", "\n">>)

\* the conversations that may spawn a subagent
ReportOrigins == [channel : ReportChannels, chat_id : ChatIds]

\* the result of a subagent of conversation o waits on the bus
ReportWaiting(o) ==
    \E i \in 1..Len(inbound) :
        /\ inbound[i].channel = System
        /\ inbound[i].chat_id = o.channel \o <<Colon>> \o o.chat_id

\* run() has made one turn of a system message, which added its user entry and
\* its assistant entry to the session of conversation o and changed no other
ReportLanded(o) ==
    LET key == o.channel \o <<Colon>> \o o.chat_id
        before == task["run"].pre.sessions
    IN  /\ TurnReturned("run")
        /\ task["run"].msg.channel = System
        /\ key \in DOMAIN sessions
        /\ Len(sessions[key].messages) =
               Len(GetOrCreate(before, key).messages) + 2
        /\ SubSeq(sessions[key].messages, 1, Len(GetOrCreate(before, key).messages))
               = GetOrCreate(before, key).messages
        /\ sessions[key].messages[Len(sessions[key].messages) - 1].role = "user"
        /\ sessions[key].messages[Len(sessions[key].messages)].role = "assistant"
        /\ \A k \in DOMAIN sessions \ { key } :
               k \in DOMAIN before /\ sessions[k] = before[k]

RecordsToolCalls(t, i) == "tool_calls" \in DOMAIN task[t].messages[i]

\* the tool calls recorded at entry i that have run so far: all of them, unless
\* entry i is of the iteration under way, whose pending calls have not
CallsRun(t, i) ==
    IF \E j \in (i + 1)..Len(task[t].messages) : RecordsToolCalls(t, j)
    THEN Len(task[t].messages[i].tool_calls)
    ELSE Len(task[t].messages[i].tool_calls) - Len(task[t].pending)

\* C22: within an iteration the assistant entry with the model's tool calls is
\* appended first; the calls then run one at a time in the order the model gave
\* them, the result of each appended, keyed by its id, before the next starts,
\* so that the tool-result entries follow the assistant entry in the order of
\* the calls; the next model call is made only when none is pending.
C22_ToolCallsRunInOrder ==
    \A t \in Tasks :
        /\ \A i \in 1..Len(task[t].messages) :
               RecordsToolCalls(t, i) =>
                   LET calls == task[t].messages[i].tool_calls
                       run == CallsRun(t, i)
                       msgs == task[t].messages
                   IN  /\ run \in 0..Len(calls)
                       /\ i + run <= Len(msgs)
                       /\ \A j \in 1..run :
                              /\ msgs[i + j].role = "tool"
                              /\ msgs[i + j].tool_call_id = calls[j].id
                              /\ msgs[i + j].name = calls[j].name
                       /\ i + run < Len(msgs) =>
                              /\ run = Len(calls)
                              /\ RecordsToolCalls(t, i + run + 1)
                       /\ i + run = Len(msgs) =>
                              task[t].pending = SubSeq(calls, run + 1, Len(calls))
        /\ \A i \in 1..Len(task[t].messages) :
               task[t].messages[i].role = "tool" =>
                   \E j \in 1..(i - 1) :
                       /\ RecordsToolCalls(t, j)
                       /\ i - j <= Len(task[t].messages[j].tool_calls)
        /\ task[t].pc = "tool" <=> task[t].pending # <<>>
        /\ task[t].pc = "chat" =>
               Len(task[t].chat_log) = ToolCallResponses(t) + 1

\* C22 witness: the two calls of the first response have run, first and second
\* in that order, and the second model call is under way
C22_Witness ==
    LET msgs == task["run"].messages
        n == Len(msgs)
    IN  /\ task["run"].pc = "chat"
        /\ Len(task["run"].chat_log) = 2
        /\ n >= 3
        /\ RecordsToolCalls("run", n - 2)
        /\ Len(msgs[n - 2].tool_calls) = 2
        /\ msgs[n - 1].role = "tool"
        /\ msgs[n - 1].tool_call_id = <<1, 1>>
        /\ msgs[n].role = "tool"
        /\ msgs[n].tool_call_id = <<1, 2>>

\* stop() has been called on the loop that run() started
StopSignalled == ~running /\ pc # "start"

\* C23: once stop() has been signalled to a running loop, run() eventually
\* exits; it observes the signal at the head of its loop only, so a turn in
\* flight runs to its end and has its reply or its failure message published
\* before the exit, and once the signal is observed no message is dequeued.
C23_StopIsCooperative ==
    /\ StopSignalled ~> (pc = "exited")
    /\ [][ /\ (pc # "exited" /\ pc' = "exited") =>
                  /\ pc = "check"
                  /\ ~running
                  /\ task["run"].pc = "idle"
           /\ (pc = "check" /\ ~running) => dequeued' = dequeued
           /\ (pc = "check" /\ ~running /\ pc' # pc) => pc' = "exited"
           /\ pc = "exited" => (pc' = "exited" /\ dequeued' = dequeued)
           /\ (pc = "turn" /\ pc' # "turn") =>
                  /\ pc' = "check"
                  /\ Len(outbound') = Len(outbound) + 1
                  /\ outbound'[Len(outbound')].turn = dequeued ]_vars

\* C23 witness: run() has exited after publishing for its last turn, with a
\* message left in the queue that it will not dequeue
C23_Witness ==
    /\ pc = "exited"
    /\ Len(outbound) = 1
    /\ outbound[1].turn = dequeued
    /\ inbound # <<>>
    /\ task["run"].pc = "idle"

(* ---------------------------------------------------------------------- *)
\* the turn of frame t has raised
TurnRaised(t) == task[t].pc = "raised"

\* C24: A turn that raises (provider.chat fails in the tool loop or while the
\* draft is generated, or append_long_term fails during confirm) leaves the
\* history and the metadata of its session as they were before the turn, so
\* a draft that awaited confirmation still awaits it; the failed call is not
\* made again: from the failure until run() has published the error, no
\* further model call is logged and sessions and the store stay as they are.
C24_RaisedTurnLeavesSession ==
    /\ [](\A t \in Tasks :
            TurnRaised(t) =>
                /\ SessionNow(t).messages = SessionBefore(t).messages
                /\ SessionNow(t).metadata = SessionBefore(t).metadata
                /\ Awaiting(SessionBefore(t)) =>
                       /\ Awaiting(SessionNow(t))
                       /\ DraftOf(SessionNow(t)) = DraftOf(SessionBefore(t)))
    /\ [][\A t \in Tasks :
            /\ (~TurnRaised(t) /\ TurnRaised(t)') =>
                   /\ task'[t].chat_log = task[t].chat_log
                   /\ memory_file' = memory_file
            /\ TurnRaised(t) =>
                   /\ task'[t].pc \in { "raised", "idle" }
                   /\ task'[t].pc = "raised" => task'[t].chat_log = task[t].chat_log
                   /\ sessions' = sessions
                   /\ memory_file' = memory_file ]_vars

\* the storage append failed on the confirmation of a draft in flight
C24_Witness ==
    /\ TurnRaised("run")
    /\ IsConfirmSave(task["run"].msg.content)
    /\ Awaiting(SessionNow("run"))
    /\ DraftOf(SessionNow("run")) # <<>>
    /\ memory_file = FileBefore("run")

(* ---------------------------------------------------------------------- *)
\* the stored draft is there, not empty and without surrounding whitespace
TrimmedDraft(session) ==
    /\ DraftKey \in DOMAIN session.metadata
    /\ session.metadata[DraftKey] # <<>>
    /\ Strip(session.metadata[DraftKey]) = session.metadata[DraftKey]

\* the turn of t is a confirm (confirm or request-save phrase) on a session
\* that awaited confirmation when the turn started
ConfirmInDrafting(t) ==
    /\ UserTurn(t)
    /\ Awaiting(SessionBefore(t))
    /\ ~IsCancelMemory(task[t].msg.content)
    /\ IsConfirmSave(task[t].msg.content) \/ IsSaveMemory(task[t].msg.content)

\* C25: In every reachable session state, awaiting_confirm being true implies
\* that draft is a non-empty, trimmed string; so no turn replies that no
\* draft exists, and every confirm in DRAFTING that returns has appended the
\* draft to long-term storage and replies with the success acknowledgment.
C25_AwaitingHasTrimmedDraft ==
    /\ \A k \in DOMAIN sessions :
           Awaiting(sessions[k]) => TrimmedDraft(sessions[k])
    /\ \A t \in Tasks :
           /\ TurnReturned(t) => Reply(t).content # NoDraftReply
           /\ (ConfirmInDrafting(t) /\ TurnReturned(t)) =>
                  /\ TrimmedDraft(SessionBefore(t))
                  /\ Reply(t).content = SavedAck
                  /\ memory_file.exists
                  /\ memory_file.text =
                         WithEntry(FileBefore(t),
                                   SessionBefore(t).metadata[DraftKey])
                  /\ memory_file # FileBefore(t)

\* the model gave no draft text, the placeholder awaited confirmation and the
\* confirm wrote it to the store
C25_Witness ==
    /\ ConfirmInDrafting("run")
    /\ TurnReturned("run")
    /\ SessionBefore("run").metadata[DraftKey] = DraftPlaceholder
    /\ memory_file.text = WithEntry(FileBefore("run"), DraftPlaceholder)

====
